---- MODULE Spec2Model ----
(***************************************************************************)
(* The pending-nonce bookkeeping of the EVM keeper (x/evm/keeper/keeper.go):*)
(* CalculateNextNonce, AddPendingNonce and RemovePendingNonce over the      *)
(* pendingNonces map and the completedNonces LRU, all under nonceMx.        *)
(*                                                                         *)
(* Every one of the three methods takes nonceMx.Lock() before it touches    *)
(* either structure and releases it on return, so each call is one atomic   *)
(* action in Spec, SpecHistory, SpecClients and SpecRetired; SpecLock runs  *)
(* the methods statement by statement under the lock.  Nonces are uint64 in *)
(* the code; the values explored stay far below 2^64, so the wrap-around of *)
(* nextNonce++ is out of reach.                                             *)
(***************************************************************************)
EXTENDS Integers, Sequences, FiniteSets, TLC

\* Nonces handed to AddPendingNonce / RemovePendingNonce are 0..MaxNonce.
MaxNonce == 2

\* At most this many reservations are held at once, over all addresses.
MaxPending == 3

\* Size of the completed-nonce LRU (100000 in NewKeeper, scaled down).
CacheCapacity == 2

\* common.Address as the number its 20 bytes spell; zeroAddress is all zero.
zeroAddress == 0

Addrs == {zeroAddress, 1}

NonNull == Addrs \ {zeroAddress}

Nonces == 0 .. MaxNonce

\* Values k.GetNonce may report for an address (the committed ledger nonce).
CommittedValues == {0, 1}

\* Nonces of the calls made for the zero address: one value is enough to see
\* whether the zero address is tracked.
ZeroNonces == {0}

NoncesFor(addr) == IF addr = zeroAddress THEN ZeroNonces ELSE Nonces

\* Goroutines running the admission protocol in SpecClients.
Clients == {1, 2, 3}

\* Goroutines calling into the keeper concurrently in SpecLock.
Goroutines == {1, 2}

VARIABLES
    pendingNonces,      \* k.pendingNonces: map[string][]uint64
    completedNonces,    \* k.completedNonces: LRU keys, most recent first
    committed,          \* what k.GetNonce(ctx, addr) returns
    last,               \* the most recent call: its arguments and result
    inFlight,           \* per address: nonces reserved and not themselves retired
    sinceRetire,        \* per address: nonces reserved since the last Retire call
    live,               \* per address: in-flight nonces no successful Retire has pruned
    pc,                 \* per client: position in the admission protocol
    sugg,               \* per client: the nonce CalculateNextNonce returned to it
    retiredLog,         \* <<addr, nonce>> of the successful retirements, latest first
    nonceMx,            \* k.nonceMx: the goroutine holding it, 0 when unlocked
    frame               \* per goroutine: the call it is in and its locals

vars == <<pendingNonces, completedNonces, committed, last, inFlight, sinceRetire, live,
          pc, sugg, retiredLog, nonceMx, frame>>

lockVars == <<nonceMx, frame>>

clientVars == <<pc, sugg>>

history == <<inFlight, sinceRetire, live>>

----------------------------------------------------------------------------
\* Helpers

\* addr.Hex(): the fixed-width hex rendering, one string per address.
Hex(addr) ==
    IF addr = 0 THEN "0x0000000000000000000000000000000000000000"
                ELSE "0x0000000000000000000000000000000000000001"

\* The %d verb: the decimal digits of nonce, most significant first.
RECURSIVE Decimal(_)
Decimal(n) == IF n < 10 THEN <<n>> ELSE Decimal(n \div 10) \o <<n % 10>>

\* fmt.Sprintf("%s|%d", addr.Hex(), nonce)
nonceCacheKey(addr, nonce) == <<Hex(addr), "|">> \o Decimal(nonce)

\* k.GetNonce(ctx, addr)
GetNonce(addr) == committed[addr]

\* completedNonces.Contains(key): membership, no recency update.
LRUContains(cache, key) == \E i \in 1 .. Len(cache) : cache[i] = key

SelectSeqNot(cache, key) == SelectSeq(cache, LAMBDA k : k # key)

\* completedNonces.Add(key, true): an existing key moves to the front; a new
\* key is pushed to the front and the oldest is evicted beyond the capacity.
LRUAdd(cache, key) ==
    IF LRUContains(cache, key)
    THEN <<key>> \o SelectSeqNot(cache, key)
    ELSE LET d == <<key>> \o cache
         IN  IF Len(d) > CacheCapacity THEN SubSeq(d, 1, Len(d) - 1) ELSE d

\* for _, v := range slice { if v == item {true}; if v > item {false} }; false
RECURSIVE sortedListContainsFrom(_, _, _)
sortedListContainsFrom(slice, item, i) ==
    IF i > Len(slice) THEN FALSE
    ELSE IF slice[i] = item THEN TRUE
    ELSE IF slice[i] > item THEN FALSE
    ELSE sortedListContainsFrom(slice, item, i + 1)

\* Mutant: the early exit taken on a smaller value instead of a larger one.
RECURSIVE sortedListContainsBailsLow(_, _)
sortedListContainsBailsLow(slice, item) ==
    IF Len(slice) = 0 THEN FALSE
    ELSE IF Head(slice) = item THEN TRUE
    ELSE IF Head(slice) < item THEN FALSE
    ELSE sortedListContainsBailsLow(Tail(slice), item)

sortedListContains(slice, item) == sortedListContainsFrom(slice, item, 1)

\* Mutant: the sort with the comparison turned round (descending order).
RECURSIVE slicesSortDescending(_)
slicesSortDescending(s) ==
    IF Len(s) <= 1 THEN s
    ELSE LET m == CHOOSE x \in {s[i] : i \in 1 .. Len(s)} :
                      \A j \in 1 .. Len(s) : x >= s[j]
             k == CHOOSE i \in 1 .. Len(s) :
                      s[i] = m /\ \A j \in 1 .. (i - 1) : s[j] # m
         IN  <<m>> \o slicesSortDescending(SubSeq(s, 1, k - 1) \o SubSeq(s, k + 1, Len(s)))

\* slices.Sort: ascending order of the same elements (selection sort).
RECURSIVE slicesSort(_)
slicesSort(s) ==
    IF Len(s) <= 1 THEN s
    ELSE LET m == CHOOSE x \in {s[i] : i \in 1 .. Len(s)} :
                      \A j \in 1 .. Len(s) : x <= s[j]
             k == CHOOSE i \in 1 .. Len(s) :
                      s[i] = m /\ \A j \in 1 .. (i - 1) : s[j] # m
         IN  <<m>> \o slicesSort(SubSeq(s, 1, k - 1) \o SubSeq(s, k + 1, Len(s)))

\* pending, _ := k.pendingNonces[addr.Hex()]  (nil when the key is absent)
PendingOf(pn, addr) == IF Hex(addr) \in DOMAIN pn THEN pn[Hex(addr)] ELSE <<>>

RECURSIVE SumLen(_, _)
SumLen(pn, keys) ==
    IF keys = {} THEN 0
    ELSE LET k == CHOOSE x \in keys : TRUE
         IN  Len(pn[k]) + SumLen(pn, keys \ {k})

TotalPending(pn) == SumLen(pn, DOMAIN pn)

----------------------------------------------------------------------------
\* CalculateNextNonce

\* Mutant: the probe looking at the pending slice only, not at the cache.
RECURSIVE ProbePendingOnly(_, _, _, _)
ProbePendingOnly(pending, cache, addr, nextNonce) ==
    IF ~sortedListContains(pending, nextNonce)
    THEN nextNonce
    ELSE ProbePendingOnly(pending, cache, addr, nextNonce + 1)

\* The for-loop of CalculateNextNonce: probe upward from nextNonce.
RECURSIVE Probe(_, _, _, _)
Probe(pending, cache, addr, nextNonce) ==
    IF ~sortedListContains(pending, nextNonce)
         /\ ~LRUContains(cache, nonceCacheKey(addr, nextNonce))
    THEN nextNonce
    ELSE Probe(pending, cache, addr, nextNonce + 1)

\* Mutant: the probe run whatever includePending says.
CalculateNextNonceAlwaysProbes(addr, includePending) ==
    Probe(PendingOf(pendingNonces, addr), completedNonces, addr, GetNonce(addr))

\* latest := k.GetNonce(ctx, addr); if !includePending { return latest }; probe
CalculateNextNonce(addr, includePending) ==
    LET latest == GetNonce(addr)
    IN  IF ~includePending THEN latest
        ELSE Probe(PendingOf(pendingNonces, addr), completedNonces, addr, latest)

----------------------------------------------------------------------------
\* AddPendingNonce

\* Mutant: the append without the slices.Sort that follows it.
AddPendingNoSort(pn, addr, nonce) ==
    LET addrStr  == Hex(addr)
        appended == Append(PendingOf(pn, addr), nonce)
    IN  [k \in DOMAIN pn \cup {addrStr} |-> IF k = addrStr THEN appended ELSE pn[k]]

\* k.pendingNonces[addrStr] = append(k.pendingNonces[addrStr], nonce); slices.Sort
AddPending(pn, addr, nonce) ==
    LET addrStr == Hex(addr)
        sorted  == slicesSort(Append(PendingOf(pn, addr), nonce))
    IN  [k \in DOMAIN pn \cup {addrStr} |-> IF k = addrStr THEN sorted ELSE pn[k]]

----------------------------------------------------------------------------
\* RemovePendingNonce

\* The index at which the range loop of RemovePendingNonce returns (0: never).
RECURSIVE FirstMatch(_, _, _, _)
FirstMatch(p, nonce, success, i) ==
    IF i > Len(p) THEN 0
    ELSE IF success /\ p[i] >= nonce THEN i
    ELSE IF ~success /\ p[i] = nonce THEN i
    ELSE FirstMatch(p, nonce, success, i + 1)

\* Mutant: the success branch removing the matched element only.
PrunePrefixOnlyOne(pn, addrStr, i) ==
    LET p == pn[addrStr]
        q == SubSeq(p, 1, i - 1) \o SubSeq(p, i + 1, Len(p))
    IN  IF Len(q) = 0
        THEN [k \in DOMAIN pn \ {addrStr} |-> pn[k]]
        ELSE [pn EXCEPT ![addrStr] = q]

\* Mutant: an emptied slice answered by a fresh, empty map.
PrunePrefixClearsMap(pn, addrStr, i) ==
    LET p == pn[addrStr]
        q == SubSeq(p, i + 1, Len(p))
    IN  IF Len(q) = 0
        THEN <<>>
        ELSE [pn EXCEPT ![addrStr] = q]

\* copy(p, p[i+1:]); p = p[:len(p)-i-1]; an emptied slice deletes the key.
PrunePrefix(pn, addrStr, i) ==
    LET p == pn[addrStr]
        q == SubSeq(p, i + 1, Len(p))
    IN  IF Len(q) = 0
        THEN [k \in DOMAIN pn \ {addrStr} |-> pn[k]]
        ELSE [pn EXCEPT ![addrStr] = q]

\* Mutant: the failure branch keeping p[:i] and losing the tail.
RemoveOneTruncates(pn, addrStr, i) ==
    [pn EXCEPT ![addrStr] = SubSeq(pn[addrStr], 1, i - 1)]

\* p = append(p[:i], p[i+1:]...); the key stays, whatever is left.
RemoveOne(pn, addrStr, i) ==
    LET p == pn[addrStr]
    IN  [pn EXCEPT ![addrStr] = SubSeq(p, 1, i - 1) \o SubSeq(p, i + 1, Len(p))]

\* The pending map after RemovePendingNonce(addr, nonce, success), addr non-zero.
RemovePending(pn, addr, nonce, success) ==
    LET addrStr == Hex(addr)
    IN  IF addrStr \notin DOMAIN pn THEN pn
        ELSE LET i == FirstMatch(pn[addrStr], nonce, success, 1)
             IN  IF i = 0 THEN pn
                 ELSE IF success THEN PrunePrefix(pn, addrStr, i)
                 ELSE RemoveOne(pn, addrStr, i)

\* Mutant: the key kept in a list that is never trimmed.
CompletedAfterUnbounded(cache, addr, nonce, success) ==
    IF success
    THEN <<nonceCacheKey(addr, nonce)>> \o SelectSeqNot(cache, nonceCacheKey(addr, nonce))
    ELSE cache

\* Mutant: the key recorded whatever the outcome.
CompletedAfterAnyOutcome(cache, addr, nonce, success) ==
    LRUAdd(cache, nonceCacheKey(addr, nonce))

\* The completed cache after RemovePendingNonce(addr, nonce, success), addr non-zero.
CompletedAfter(cache, addr, nonce, success) ==
    IF success THEN LRUAdd(cache, nonceCacheKey(addr, nonce)) ELSE cache

----------------------------------------------------------------------------
\* The three calls as steps on the keeper state.  nonceMx is held from the
\* first access to the return, so a call is one step.

\* Mutant: the call reserving the nonce it returns.
DoCalculateReserves(addr, includePending) ==
    /\ pendingNonces' = IF includePending
                        THEN AddPending(pendingNonces, addr,
                                        CalculateNextNonce(addr, includePending))
                        ELSE pendingNonces
    /\ UNCHANGED <<completedNonces, committed>>

\* CalculateNextNonce writes nothing.
DoCalculate(addr, includePending) ==
    UNCHANGED <<pendingNonces, completedNonces, committed>>

\* AddPendingNonce(addr, nonce); the guard only bounds the state space.
DoAdd(addr, nonce) ==
    /\ TotalPending(pendingNonces) < MaxPending
    /\ pendingNonces' = AddPending(pendingNonces, addr, nonce)
    /\ UNCHANGED <<completedNonces, committed>>

\* RemovePendingNonce(addr, nonce, success): returns at once for zeroAddress.
DoRemove(addr, nonce, success) ==
    /\ IF addr = zeroAddress
       THEN UNCHANGED <<pendingNonces, completedNonces>>
       ELSE /\ completedNonces' = CompletedAfter(completedNonces, addr, nonce, success)
            /\ pendingNonces' = RemovePending(pendingNonces, addr, nonce, success)
    /\ UNCHANGED committed

\* The record of a call: its arguments, its result, and the pending slice of
\* its address as the call found it.
Call(op, addr, nonce, flag, ret) ==
    [op |-> op, addr |-> addr, nonce |-> nonce, flag |-> flag, ret |-> ret,
     before |-> PendingOf(pendingNonces, addr),
     hadKey |-> Hex(addr) \in DOMAIN pendingNonces]

\* The frame of a goroutine that is in none of the three methods.
Idle == [at |-> "idle", addr |-> zeroAddress, nonce |-> 0, flag |-> FALSE,
         nextNonce |-> 0, i |-> 0]

NoCall == [op |-> "none", addr |-> zeroAddress, nonce |-> 0, flag |-> FALSE,
           ret |-> 0, before |-> <<>>, hadKey |-> FALSE]

Init ==
    /\ pendingNonces = <<>>
    /\ completedNonces = <<>>
    /\ committed \in [Addrs -> CommittedValues]
    /\ last = NoCall
    /\ inFlight = [a \in NonNull |-> {}]
    /\ sinceRetire = [a \in NonNull |-> {}]
    /\ live = [a \in NonNull |-> {}]
    /\ pc = [c \in Clients |-> "start"]
    /\ sugg = [c \in Clients |-> 0]
    /\ retiredLog = <<>>
    /\ nonceMx = 0
    /\ frame = [g \in Goroutines |-> Idle]

----------------------------------------------------------------------------
\* Spec: any caller makes any call at any time; last records the call.

SuggestNext ==
    \E addr \in Addrs, includePending \in BOOLEAN :
        /\ DoCalculate(addr, includePending)
        /\ last' = Call("CalculateNextNonce", addr, 0, includePending,
                        CalculateNextNonce(addr, includePending))
        /\ UNCHANGED <<history, pc, sugg, retiredLog, lockVars>>

AddPendingNonce ==
    \E addr \in Addrs : \E nonce \in NoncesFor(addr) :
        /\ DoAdd(addr, nonce)
        /\ last' = Call("AddPendingNonce", addr, nonce, FALSE, 0)
        /\ UNCHANGED <<history, pc, sugg, retiredLog, lockVars>>

RemovePendingNonce ==
    \E addr \in Addrs : \E nonce \in NoncesFor(addr), success \in BOOLEAN :
        /\ DoRemove(addr, nonce, success)
        /\ last' = Call("RemovePendingNonce", addr, nonce, success, 0)
        /\ UNCHANGED <<history, pc, sugg, retiredLog, lockVars>>

Next == SuggestNext \/ AddPendingNonce \/ RemovePendingNonce

Spec == Init /\ [][Next]_vars

----------------------------------------------------------------------------
\* SpecHistory: the same AddPendingNonce and RemovePendingNonce calls on the
\* tracked (non-zero) addresses, with the history of reservations kept:
\* inFlight[a] holds the nonces reserved for a whose own RemovePendingNonce
\* call has not come yet, sinceRetire[a] those reserved since the last
\* RemovePendingNonce call for a, and live[a] those of inFlight[a] that no
\* successful RemovePendingNonce of another nonce has discarded since.
\* CalculateNextNonce writes nothing, so what it would return is read off
\* every state.

\* The values of a slice.
Elems(s) == {s[i] : i \in 1 .. Len(s)}

\* What a successful retirement of nonce discards from the pending slice p:
\* every value up to the least pending value that is >= nonce.
Pruned(p, nonce, success) ==
    LET ge == {x \in Elems(p) : x >= nonce}
    IN  IF success /\ ge # {}
        THEN {x \in Elems(p) : \A y \in ge : x <= y}
        ELSE {}

ReserveTracked ==
    \E addr \in NonNull, nonce \in Nonces :
        /\ DoAdd(addr, nonce)
        /\ inFlight' = [inFlight EXCEPT ![addr] = @ \cup {nonce}]
        /\ sinceRetire' = [sinceRetire EXCEPT ![addr] = @ \cup {nonce}]
        /\ live' = [live EXCEPT ![addr] = @ \cup {nonce}]
        /\ UNCHANGED <<last, pc, sugg, retiredLog, lockVars>>

RetireTracked ==
    \E addr \in NonNull, nonce \in Nonces, success \in BOOLEAN :
        /\ DoRemove(addr, nonce, success)
        /\ inFlight' = [inFlight EXCEPT ![addr] = @ \ {nonce}]
        /\ sinceRetire' = [sinceRetire EXCEPT ![addr] = {}]
        /\ live' = [live EXCEPT ![addr] =
                        (@ \ {nonce}) \ Pruned(PendingOf(pendingNonces, addr), nonce, success)]
        /\ UNCHANGED <<last, pc, sugg, retiredLog, lockVars>>

NextHistory == ReserveTracked \/ RetireTracked

SpecHistory == Init /\ [][NextHistory]_vars

----------------------------------------------------------------------------
\* SpecClients: goroutines that each run CalculateNextNonce(addr, true), then
\* AddPendingNonce of what it returned, then RemovePendingNonce(.., true), all
\* for the same non-zero address.  Nothing else moves the committed nonce.

ClientAddr == CHOOSE a \in NonNull : TRUE

ClientSuggest(c) ==
    /\ pc[c] = "start"
    /\ DoCalculate(ClientAddr, TRUE)
    /\ sugg' = [sugg EXCEPT ![c] = CalculateNextNonce(ClientAddr, TRUE)]
    /\ pc' = [pc EXCEPT ![c] = "suggested"]
    /\ UNCHANGED <<last, history, retiredLog, lockVars>>

ClientReserve(c) ==
    /\ pc[c] = "suggested"
    /\ DoAdd(ClientAddr, sugg[c])
    /\ pc' = [pc EXCEPT ![c] = "reserved"]
    /\ UNCHANGED <<last, history, sugg, retiredLog, lockVars>>

ClientRetire(c) ==
    /\ pc[c] = "reserved"
    /\ DoRemove(ClientAddr, sugg[c], TRUE)
    /\ pc' = [pc EXCEPT ![c] = "finalized"]
    /\ UNCHANGED <<last, history, sugg, retiredLog, lockVars>>

NextClients ==
    \E c \in Clients : ClientSuggest(c) \/ ClientReserve(c) \/ ClientRetire(c)

SpecClients == Init /\ [][NextClients]_vars

----------------------------------------------------------------------------
\* SpecRetired: any call at any time, as in Spec, with the log of the
\* successful RemovePendingNonce calls made for non-zero addresses: the
\* <<addr, nonce>> pairs, each once, the most recently retired first.

\* The log after RemovePendingNonce(addr, nonce, success).
Logged(log, addr, nonce, success) ==
    IF success /\ addr # zeroAddress
    THEN <<<<addr, nonce>>>> \o SelectSeq(log, LAMBDA e : e # <<addr, nonce>>)
    ELSE log

SuggestLogged ==
    \E addr \in Addrs, includePending \in BOOLEAN :
        /\ DoCalculate(addr, includePending)
        /\ UNCHANGED <<last, history, pc, sugg, retiredLog, lockVars>>

ReserveLogged ==
    \E addr \in Addrs : \E nonce \in NoncesFor(addr) :
        /\ DoAdd(addr, nonce)
        /\ UNCHANGED <<last, history, pc, sugg, retiredLog, lockVars>>

RetireLogged ==
    \E addr \in Addrs : \E nonce \in NoncesFor(addr), success \in BOOLEAN :
        /\ DoRemove(addr, nonce, success)
        /\ retiredLog' = Logged(retiredLog, addr, nonce, success)
        /\ UNCHANGED <<last, history, pc, sugg, lockVars>>

NextRetired == SuggestLogged \/ ReserveLogged \/ RetireLogged

SpecRetired == Init /\ [][NextRetired]_vars

----------------------------------------------------------------------------
\* SpecLock: the three methods statement by statement, called by concurrent
\* goroutines for a non-zero address.  frame[g].at is the statement goroutine
\* g is about to run; nonceMx is taken on entry and released by the deferred
\* Unlock.  (RemovePendingNonce for zeroAddress returns before the lock.)

\* Mutant: a Lock that does not wait for the holder.
LockWithoutWaiting(g) == nonceMx' = g

\* k.nonceMx.Lock()
Lock(g) == nonceMx = 0 /\ nonceMx' = g

\* defer k.nonceMx.Unlock()
Unlock(g) == nonceMx' = 0

\* Mutant: a probe that forgets nextNonce++.
ProbeStepStuck(pending, cache, addr, nextNonce) ==
    IF ~sortedListContains(pending, nextNonce)
         /\ ~LRUContains(cache, nonceCacheKey(addr, nextNonce))
    THEN [at |-> "return", nextNonce |-> nextNonce]
    ELSE [at |-> "probe", nextNonce |-> nextNonce]

\* One turn of the for-loop of CalculateNextNonce: return or nextNonce++.
ProbeStep(pending, cache, addr, nextNonce) ==
    IF ~sortedListContains(pending, nextNonce)
         /\ ~LRUContains(cache, nonceCacheKey(addr, nextNonce))
    THEN [at |-> "return", nextNonce |-> nextNonce]
    ELSE [at |-> "probe", nextNonce |-> nextNonce + 1]

\* k.pendingNonces[addrStr] = append(k.pendingNonces[addrStr], nonce)
AppendPending(pn, addr, nonce) ==
    [k \in DOMAIN pn \cup {Hex(addr)} |->
        IF k = Hex(addr) THEN Append(PendingOf(pn, addr), nonce) ELSE pn[k]]

\* slices.Sort(k.pendingNonces[addrStr])
SortPending(pn, addr) ==
    [k \in DOMAIN pn |-> IF k = Hex(addr) THEN slicesSort(pn[k]) ELSE pn[k]]

\* copy(p, p[i+1:]): the values after index i moved to the front, the rest
\* of the slice left as it was.
CopyDown(pn, addr, i) ==
    LET p == PendingOf(pn, addr)
    IN  [k \in DOMAIN pn |->
            IF k = Hex(addr)
            THEN [j \in 1 .. Len(p) |-> IF j + i <= Len(p) THEN p[j + i] ELSE p[j]]
            ELSE pn[k]]

\* p = p[:len(p)-i-1]; if len(p) == 0 { delete(k.pendingNonces, addrStr) }
Truncate(pn, addr, i) ==
    LET p == PendingOf(pn, addr)
        q == SubSeq(p, 1, Len(p) - i)
    IN  IF Len(q) = 0
        THEN [k \in DOMAIN pn \ {Hex(addr)} |-> pn[k]]
        ELSE [k \in DOMAIN pn |-> IF k = Hex(addr) THEN q ELSE pn[k]]

\* The frame of g moved to statement at, its other fields kept.
Goto(g, at) == frame' = [frame EXCEPT ![g].at = at]

\* The frame of g at the deferred Unlock, its locals dead.
ToUnlock(g) == frame' = [frame EXCEPT ![g] = [Idle EXCEPT !.at = "unlock"]]

lockFrame == <<committed, last, history, pc, sugg, retiredLog>>

CalcEnter(g) ==
    \E addr \in NonNull, includePending \in BOOLEAN :
        /\ frame[g].at = "idle"
        /\ Lock(g)
        /\ frame' = [frame EXCEPT ![g] =
                        [Idle EXCEPT !.at = "latest", !.addr = addr, !.flag = includePending]]
        /\ UNCHANGED <<pendingNonces, completedNonces, lockFrame>>

CalcLatest(g) ==
    /\ frame[g].at = "latest"
    /\ frame' = [frame EXCEPT ![g].nextNonce = GetNonce(frame[g].addr),
                              ![g].at = IF frame[g].flag THEN "probe" ELSE "return"]
    /\ UNCHANGED <<pendingNonces, completedNonces, nonceMx, lockFrame>>

CalcProbe(g) ==
    /\ frame[g].at = "probe"
    /\ LET r == ProbeStep(PendingOf(pendingNonces, frame[g].addr), completedNonces,
                          frame[g].addr, frame[g].nextNonce)
       IN  frame' = [frame EXCEPT ![g].at = r.at, ![g].nextNonce = r.nextNonce]
    /\ UNCHANGED <<pendingNonces, completedNonces, nonceMx, lockFrame>>

\* A call of AddPendingNonce by g with a nonce of the given set; the first
\* guard only bounds the state space.
AddCall(g, nonces) ==
    \E addr \in NonNull, nonce \in nonces :
        /\ frame[g].at = "idle"
        /\ TotalPending(pendingNonces) < MaxPending
        /\ Lock(g)
        /\ frame' = [frame EXCEPT ![g] =
                        [Idle EXCEPT !.at = "append", !.addr = addr, !.nonce = nonce]]
        /\ UNCHANGED <<pendingNonces, completedNonces, lockFrame>>

AddEnter(g) == AddCall(g, Nonces)

AddAppend(g) ==
    /\ frame[g].at = "append"
    /\ pendingNonces' = AppendPending(pendingNonces, frame[g].addr, frame[g].nonce)
    /\ Goto(g, "sort")
    /\ UNCHANGED <<completedNonces, nonceMx, lockFrame>>

AddSort(g) ==
    /\ frame[g].at = "sort"
    /\ pendingNonces' = SortPending(pendingNonces, frame[g].addr)
    /\ ToUnlock(g)
    /\ UNCHANGED <<completedNonces, nonceMx, lockFrame>>

\* A call of RemovePendingNonce by g with a nonce of the given set.
RemCall(g, nonces) ==
    \E addr \in NonNull, nonce \in nonces, success \in BOOLEAN :
        /\ frame[g].at = "idle"
        /\ Lock(g)
        /\ frame' = [frame EXCEPT ![g] =
                        [Idle EXCEPT !.at = "record", !.addr = addr, !.nonce = nonce,
                                     !.flag = success]]
        /\ UNCHANGED <<pendingNonces, completedNonces, lockFrame>>

RemEnter(g) == RemCall(g, Nonces)

\* if success { k.completedNonces.Add(nonceCacheKey(addr, nonce), true) }
RemRecord(g) ==
    /\ frame[g].at = "record"
    /\ completedNonces' = CompletedAfter(completedNonces, frame[g].addr, frame[g].nonce,
                                         frame[g].flag)
    /\ Goto(g, "scan")
    /\ UNCHANGED <<pendingNonces, nonceMx, lockFrame>>

\* The key test and the range loop up to the statement that changes the
\* slice: the copy of the success branch, or the whole failure branch.
RemScan(g) ==
    /\ frame[g].at = "scan"
    /\ LET addr == frame[g].addr
           i    == FirstMatch(PendingOf(pendingNonces, addr), frame[g].nonce, frame[g].flag, 1)
       IN  IF Hex(addr) \notin DOMAIN pendingNonces \/ i = 0
           THEN ToUnlock(g) /\ UNCHANGED pendingNonces
           ELSE IF frame[g].flag
           THEN /\ pendingNonces' = CopyDown(pendingNonces, addr, i)
                /\ frame' = [frame EXCEPT ![g].at = "truncate", ![g].i = i]
           ELSE /\ pendingNonces' = RemoveOne(pendingNonces, Hex(addr), i)
                /\ ToUnlock(g)
    /\ UNCHANGED <<completedNonces, nonceMx, lockFrame>>

RemTruncate(g) ==
    /\ frame[g].at = "truncate"
    /\ pendingNonces' = Truncate(pendingNonces, frame[g].addr, frame[g].i)
    /\ ToUnlock(g)
    /\ UNCHANGED <<completedNonces, nonceMx, lockFrame>>

\* The return of any of the three methods: the deferred Unlock runs.
Release(g) ==
    /\ frame[g].at \in {"return", "unlock"}
    /\ Unlock(g)
    /\ frame' = [frame EXCEPT ![g] = Idle]
    /\ UNCHANGED <<pendingNonces, completedNonces, lockFrame>>

\* The steps of a goroutine that is inside one of the methods.
Continue(g) ==
    \/ CalcLatest(g) \/ CalcProbe(g)
    \/ AddAppend(g) \/ AddSort(g)
    \/ RemRecord(g) \/ RemScan(g) \/ RemTruncate(g)
    \/ Release(g)

NextLock ==
    \E g \in Goroutines : CalcEnter(g) \/ AddEnter(g) \/ RemEnter(g) \/ Continue(g)

SpecLock == Init /\ [][NextLock]_vars

\* SpecLockFair: the same steps under the scheduling the runtime gives.  A
\* goroutine that holds nonceMx is runnable and the scheduler runs it, so the
\* statements inside a method are taken eventually; nothing is assumed about
\* when, or whether, a goroutine calls a method.  The nonces of the calls are
\* the two values the committed nonce can take, which is where probes start.
FairNonces == CommittedValues

AddEnterFair(g) == AddCall(g, FairNonces)

RemEnterFair(g) == RemCall(g, FairNonces)

NextLockFair ==
    \E g \in Goroutines :
        CalcEnter(g) \/ AddEnterFair(g) \/ RemEnterFair(g) \/ Continue(g)

SpecLockFair ==
    Init /\ [][NextLockFair]_vars /\ \A g \in Goroutines : WF_vars(Continue(g))

----------------------------------------------------------------------------
\* Properties

Count(s, x) == Cardinality({i \in 1 .. Len(s) : s[i] = x})

\* (addr, n) is recorded in the completed cache.
Completed(addr, n) ==
    \E i \in 1 .. Len(completedNonces) : completedNonces[i] = nonceCacheKey(addr, n)

\* n is neither pending for addr nor completed for addr.
Unclaimed(addr, n) ==
    /\ n \notin Elems(PendingOf(pendingNonces, addr))
    /\ ~Completed(addr, n)

\* C1: CalculateNextNonce(addr, true) is the smallest nonce n >= the committed
\* nonce of addr that is neither in addr's pending slice nor, as (addr, n),
\* in the completed cache; a recorded call returned exactly that.
C1_SuggestIsSmallestUnclaimed ==
    /\ \A addr \in Addrs :
          LET r == CalculateNextNonce(addr, TRUE)
          IN  /\ r >= committed[addr]
              /\ Unclaimed(addr, r)
              /\ \A m \in committed[addr] .. (r - 1) : ~Unclaimed(addr, m)
              /\ (PendingOf(pendingNonces, addr) = <<>>
                    /\ (\A n \in 0 .. (MaxNonce + 1) : ~Completed(addr, n))
                        => r = committed[addr])
    /\ (last.op = "CalculateNextNonce" /\ last.flag)
          => last.ret = CalculateNextNonce(last.addr, TRUE)

\* C1 witness: committed 0, pending <<0, 2>>, (addr, 1) completed: the call
\* skipped all three and returned 3.
C1_Witness ==
    /\ last.op = "CalculateNextNonce" /\ last.flag /\ last.addr \in NonNull
    /\ committed[last.addr] = 0
    /\ PendingOf(pendingNonces, last.addr) = <<0, 2>>
    /\ Completed(last.addr, 1)
    /\ last.ret = 3

\* C2 as claimed: a nonce reserved for a non-zero address and not itself
\* retired is never what CalculateNextNonce(addr, true) returns.
C2_InFlightNeverSuggested ==
    \A a \in NonNull : \A n \in inFlight[a] : CalculateNextNonce(a, TRUE) # n

\* C2 amended: a nonce reserved for a non-zero address, not itself retired and
\* not discarded by a successful retirement of another nonce (one whose pruned
\* prefix reached it) is never what CalculateNextNonce(addr, true) returns.
C2_LiveNeverSuggested ==
    \A a \in NonNull : \A n \in live[a] : CalculateNextNonce(a, TRUE) # n

\* C2 witness: 0, 1 and 2 were reserved and 1 retired with success: 0 was
\* pruned and is suggested again, 2 is still protected.
C2_Witness ==
    \E a \in NonNull :
        /\ inFlight[a] = {0, 2} /\ live[a] = {2}
        /\ Completed(a, 1)
        /\ committed[a] = 0
        /\ PendingOf(pendingNonces, a) = <<2>>
        /\ CalculateNextNonce(a, TRUE) = 0

\* C3 as claimed: no two clients finalize the same nonce.
C3_NoTwoFinalizeSameNonce ==
    \A c1, c2 \in Clients :
        (c1 # c2 /\ pc[c1] = "finalized" /\ pc[c2] = "finalized")
            => sugg[c1] # sugg[c2]

\* C4: a nonce reserved for a non-zero address since the last
\* RemovePendingNonce call for that address is not what
\* CalculateNextNonce(addr, true) returns.
C4_ReservedNotSuggested ==
    \A a \in NonNull : \A n \in sinceRetire[a] : CalculateNextNonce(a, TRUE) # n

\* C4 witness: the committed nonce 0 was reserved (after an earlier
\* retirement), and the suggestion moved past it.
C4_Witness ==
    \E a \in NonNull :
        /\ committed[a] = 0
        /\ sinceRetire[a] = {0}
        /\ inFlight[a] = {0, 2}
        /\ CalculateNextNonce(a, TRUE) = 1

\* C5 as claimed: the zero address has no pending entry and no completed
\* pair, and CalculateNextNonce(zeroAddress, true) is its committed nonce.
C5_ZeroAddressNeverTracked ==
    /\ Hex(zeroAddress) \notin DOMAIN pendingNonces
    /\ \A n \in 0 .. (MaxNonce + 1) : ~Completed(zeroAddress, n)
    /\ CalculateNextNonce(zeroAddress, TRUE) = committed[zeroAddress]

\* C6: RemovePendingNonce(addr, n, true) for a non-zero address whose pending
\* slice held a value >= n leaves exactly what followed the first such value,
\* in order, and (addr, n) is in the completed cache.
C6_SuccessPrunesPrefix ==
    (/\ last.op = "RemovePendingNonce" /\ last.flag /\ last.addr \in NonNull
     /\ \E i \in 1 .. Len(last.before) : last.before[i] >= last.nonce)
    => LET p == last.before
           q == PendingOf(pendingNonces, last.addr)
           i == CHOOSE j \in 1 .. Len(p) :
                    p[j] >= last.nonce /\ \A k \in 1 .. (j - 1) : p[k] < last.nonce
       IN  /\ Len(q) = Len(p) - i
           /\ \A k \in 1 .. Len(q) : q[k] = p[i + k]
           /\ Completed(last.addr, last.nonce)

\* C6 witness: pending <<0, 1, 2>>, nonce 1 retired with success: <<2>> is left.
C6_Witness ==
    /\ last.op = "RemovePendingNonce" /\ last.flag /\ last.addr \in NonNull
    /\ last.nonce = 1
    /\ last.before = <<0, 1, 2>>
    /\ PendingOf(pendingNonces, last.addr) = <<2>>
    /\ Completed(last.addr, 1)

\* C7 as claimed: RemovePendingNonce(addr, n, true) with no pending value at
\* or below n leaves the pending slice of addr as it was and records (addr, n).
C7_RetireAboveDropsNothing ==
    (/\ last.op = "RemovePendingNonce" /\ last.flag /\ last.addr \in NonNull
     /\ \A i \in 1 .. Len(last.before) : last.before[i] > last.nonce)
    => /\ PendingOf(pendingNonces, last.addr) = last.before
       /\ (Hex(last.addr) \in DOMAIN pendingNonces) = last.hadKey
       /\ Completed(last.addr, last.nonce)

\* C8 as claimed: RemovePendingNonce(addr, n, false) for a non-zero address
\* removes one occurrence of a pending n and nothing else, after which the
\* pending slice no longer blocks n; an n that is not pending changes nothing.
C8_FailureReleasesOne ==
    (last.op = "RemovePendingNonce" /\ ~last.flag /\ last.addr \in NonNull)
    => LET p == last.before
           q == PendingOf(pendingNonces, last.addr)
       IN  IF last.nonce \in Elems(p)
           THEN /\ \E i \in 1 .. Len(p) :
                      /\ p[i] = last.nonce
                      /\ q = SubSeq(p, 1, i - 1) \o SubSeq(p, i + 1, Len(p))
                /\ ~sortedListContains(q, last.nonce)
           ELSE q = p

\* C9 as claimed: no address is mapped to an empty pending slice.
C9_NoEmptyEntry ==
    \A k \in DOMAIN pendingNonces : Len(pendingNonces[k]) > 0

\* C10 as claimed: no pending slice holds the same nonce twice.
C10_NoDuplicates ==
    \A k \in DOMAIN pendingNonces :
        \A n \in Elems(pendingNonces[k]) : Count(pendingNonces[k], n) = 1

\* C11 (as stated): once RemovePendingNonce(addr, n, true) has been applied
\* for a non-zero addr, n is never again in addr's pending slice and never
\* again what CalculateNextNonce(addr, true) returns.
C11_RetiredNeverAgain ==
    \A i \in 1 .. Len(retiredLog) :
        LET addr == retiredLog[i][1]
            n    == retiredLog[i][2]
        IN  /\ n \notin Elems(PendingOf(pendingNonces, addr))
            /\ CalculateNextNonce(addr, TRUE) # n

\* C11 (amended): a nonce n retired with success for a non-zero addr is not
\* what CalculateNextNonce(addr, true) returns for as long as (addr, n) is
\* still in the completed cache; AddPendingNonce can make n pending again.
C11_RetiredNotSuggestedWhileCached ==
    \A i \in 1 .. Len(retiredLog) :
        LET addr == retiredLog[i][1]
            n    == retiredLog[i][2]
        IN  Completed(addr, n) => CalculateNextNonce(addr, TRUE) # n

\* A retired nonce at the committed nonce of its address, with nothing
\* pending there: only the cache keeps it from being suggested.
C11_Witness ==
    \E i \in 1 .. Len(retiredLog) :
        LET addr == retiredLog[i][1]
            n    == retiredLog[i][2]
        IN  /\ Completed(addr, n)
            /\ n = committed[addr]
            /\ PendingOf(pendingNonces, addr) = <<>>
            /\ CalculateNextNonce(addr, TRUE) = n + 1

\* C12: CalculateNextNonce(addr, includePending) is read-only for both values
\* of the flag: a step that is such a call leaves the pending slices of every
\* address and the completed cache as they were; in particular the nonce it
\* returns is not reserved by it.
C12_SuggestIsReadOnly ==
    [][last'.op = "CalculateNextNonce" =>
          /\ pendingNonces' = pendingNonces
          /\ completedNonces' = completedNonces
          /\ last'.ret \notin Elems(PendingOf(pendingNonces, last'.addr)) =>
                 last'.ret \notin Elems(PendingOf(pendingNonces', last'.addr))]_vars

\* A call with includePending = true made while its address has reservations
\* and completed pairs: it returned a nonce past them and reserved nothing.
C12_Witness ==
    /\ last.op = "CalculateNextNonce"
    /\ last.flag
    /\ last.before # <<>>
    /\ Completed(last.addr, committed[last.addr])
    /\ last.ret > committed[last.addr]
    /\ PendingOf(pendingNonces, last.addr) = last.before
    /\ last.ret \notin Elems(last.before)

\* C13: CalculateNextNonce(addr, false) is the committed nonce of addr in
\* every reachable state, whatever is pending or completed for addr; a
\* recorded call with includePending = false returned exactly that.
C13_WithoutPendingIsCommitted ==
    /\ \A addr \in Addrs : CalculateNextNonce(addr, FALSE) = committed[addr]
    /\ (last.op = "CalculateNextNonce" /\ ~last.flag) => last.ret = committed[last.addr]

\* Such a call made while the committed nonce of its address is both pending
\* and completed, so that the probe would have gone past it.
C13_Witness ==
    /\ last.op = "CalculateNextNonce"
    /\ ~last.flag
    /\ committed[last.addr] \in Elems(PendingOf(pendingNonces, last.addr))
    /\ Completed(last.addr, committed[last.addr] + 1)
    /\ last.ret = committed[last.addr]
    /\ CalculateNextNonce(last.addr, TRUE) > last.ret + 1

\* C14: the completed cache never holds more than CacheCapacity pairs, never
\* the same pair twice, and holds exactly the CacheCapacity most recently
\* retired pairs: a new pair retired into a full cache pushes out the least
\* recently retired one, so of CacheCapacity + 1 distinct retired pairs the
\* oldest is no longer present.
C14_CacheIsBoundedLRU ==
    /\ Len(completedNonces) <= CacheCapacity
    /\ \A i, j \in 1 .. Len(completedNonces) :
           completedNonces[i] = completedNonces[j] => i = j
    /\ \A i \in 1 .. Len(retiredLog) :
           Completed(retiredLog[i][1], retiredLog[i][2]) <=> i <= CacheCapacity

\* One pair more than the capacity has been retired: the oldest is gone, the
\* others are all present.
C14_Witness ==
    /\ Len(retiredLog) = CacheCapacity + 1
    /\ Len(completedNonces) = CacheCapacity
    /\ ~Completed(retiredLog[CacheCapacity + 1][1], retiredLog[CacheCapacity + 1][2])
    /\ \A i \in 1 .. CacheCapacity : Completed(retiredLog[i][1], retiredLog[i][2])

\* C17: a pair is in the completed cache only if RemovePendingNonce(addr, n,
\* true) was called earlier for that non-zero addr; no other call adds a key
\* (every key present is the key of a logged pair), and a logged pair is
\* missing only when the cache is full of pairs retired after it.
C17_CacheHoldsOnlyRetired ==
    /\ \A k \in 1 .. Len(completedNonces) :
           \E i \in 1 .. Len(retiredLog) :
               /\ retiredLog[i][1] # zeroAddress
               /\ completedNonces[k] = nonceCacheKey(retiredLog[i][1], retiredLog[i][2])
    /\ \A i \in 1 .. Len(retiredLog) :
           ~Completed(retiredLog[i][1], retiredLog[i][2]) =>
               /\ Len(completedNonces) = CacheCapacity
               /\ \A j \in 1 .. CacheCapacity :
                      j < i /\ Completed(retiredLog[j][1], retiredLog[j][2])

\* The cache holds a retired pair while reservations are pending for both
\* addresses and a nonce of a failed retirement is neither pending nor cached.
C17_Witness ==
    /\ Len(completedNonces) = 1
    /\ Len(retiredLog) = 1
    /\ Hex(zeroAddress) \in DOMAIN pendingNonces
    /\ \E a \in NonNull :
           /\ PendingOf(pendingNonces, a) # <<>>
           /\ \E n \in Nonces : Unclaimed(a, n) /\ n < retiredLog[1][2]

IsSorted(p) == \A i, j \in 1 .. Len(p) : i < j => p[i] <= p[j]

\* g is between the Lock and the Unlock of a method.
InCriticalSection(g) == frame[g].at # "idle"

\* C15: under any interleaving of the three methods, a goroutine is inside a
\* method body only while it holds nonceMx, no two goroutines are inside at
\* once, and while CalculateNextNonce reads (GetNonce, the pending slice, the
\* probe) no AddPendingNonce is between its append and its sort and no
\* RemovePendingNonce is part-way: the slice it reads is sorted.
C15_CallsAreAtomic ==
    /\ \A g \in Goroutines : InCriticalSection(g) => nonceMx = g
    /\ \A g, h \in Goroutines : InCriticalSection(g) /\ InCriticalSection(h) => g = h
    /\ \A g \in Goroutines :
           frame[g].at \in {"latest", "probe", "return"} =>
               /\ \A h \in Goroutines :
                      frame[h].at \notin {"append", "sort", "record", "scan", "truncate"}
               /\ IsSorted(PendingOf(pendingNonces, frame[g].addr))

\* A goroutine between the append and the sort of AddPendingNonce, the slice
\* out of order, while the other goroutine is outside.
C15_Witness ==
    \E g, h \in Goroutines :
        /\ g # h
        /\ frame[g].at = "sort"
        /\ ~IsSorted(PendingOf(pendingNonces, frame[g].addr))
        /\ nonceMx = g
        /\ frame[h].at = "idle"

\* C18: every CalculateNextNonce(addr, true) terminates: a goroutine in the
\* probe loop gets to its return with a nonce that is neither in the pending
\* slice nor in the completed cache, and from there leaves the method with
\* nonceMx released, so that the other goroutines can take it.
C18_ProbeTerminates ==
    \A g \in Goroutines :
        /\ (frame[g].at = "probe") ~>
               (/\ frame[g].at = "return"
                /\ frame[g].nextNonce >= committed[frame[g].addr]
                /\ Unclaimed(frame[g].addr, frame[g].nextNonce))
        /\ (frame[g].at = "return") ~> (frame[g].at = "idle" /\ nonceMx = 0)

\* A probe that has stepped over a completed nonce and stands at a pending
\* one, while the other goroutine is outside, waiting for nonceMx.
C18_Witness ==
    \E g, h \in Goroutines :
        /\ g # h
        /\ frame[h].at = "idle"
        /\ frame[g].at = "probe"
        /\ frame[g].nextNonce > committed[frame[g].addr]
        /\ Completed(frame[g].addr, committed[frame[g].addr])
        /\ frame[g].nextNonce \in Elems(PendingOf(pendingNonces, frame[g].addr))

\* C16 (as stated): after RemovePendingNonce(addr, n, true) for a non-zero
\* addr, no value <= n is left in addr's pending slice, also when the call
\* found no pending value >= n.
C16_SuccessLeavesNothingBelow ==
    (last.op = "RemovePendingNonce" /\ last.flag /\ last.addr # zeroAddress) =>
        \A x \in Elems(PendingOf(pendingNonces, last.addr)) : x > last.nonce

\* C19: the pending slice of every address is in ascending (non-decreasing)
\* order in every reachable state, so that the early exit of
\* sortedListContains is right: it finds exactly the values of the slice.
C19_PendingIsSorted ==
    \A k \in DOMAIN pendingNonces :
        /\ IsSorted(pendingNonces[k])
        /\ \A x \in 0 .. (MaxNonce + 1) :
               sortedListContains(pendingNonces[k], x) <=> x \in Elems(pendingNonces[k])

\* AddPendingNonce of a nonce below everything already pending: the append
\* put it last and the sort moved it to the front.
C19_Witness ==
    /\ last.op = "AddPendingNonce"
    /\ Len(last.before) >= 2
    /\ \A x \in Elems(last.before) : last.nonce < x
    /\ PendingOf(pendingNonces, last.addr) = <<last.nonce>> \o last.before

\* C20: AddPendingNonce(a, n) and RemovePendingNonce(a, n, success) change the
\* pending slice of a only: for every other address the slice, and whether
\* the map has a key for it at all, are what they were before the call.
C20_OtherAddressesUntouched ==
    [][last'.op \in {"AddPendingNonce", "RemovePendingNonce"} =>
          \A b \in Addrs \ {last'.addr} :
              /\ (Hex(b) \in DOMAIN pendingNonces') <=> (Hex(b) \in DOMAIN pendingNonces)
              /\ PendingOf(pendingNonces', b) = PendingOf(pendingNonces, b)]_vars

\* A successful RemovePendingNonce that emptied the slice of its address and
\* deleted its key, while another address keeps its reservation.
C20_Witness ==
    /\ last.op = "RemovePendingNonce"
    /\ last.flag
    /\ last.hadKey
    /\ Hex(last.addr) \notin DOMAIN pendingNonces
    /\ \E b \in Addrs \ {last.addr} : PendingOf(pendingNonces, b) # <<>>

====
